---- MODULE Spec2Model ----
(***************************************************************************)
(* Model of src/solar_crowler.py: a crawler that scans listing pages for   *)
(* zero-price tiles, merges them into a JSON result store and notifies by  *)
(* e-mail.                                                                 *)
(*                                                                         *)
(* Python strings are sequences of one-character strings.  Python values   *)
(* are tagged records: None, Str(s), PyInt(n); dicts are Dict(f) with f a  *)
(* function from keys.  JSON values carry their own tags, so dumping and   *)
(* loading are conversions and not the identity.                           *)
(***************************************************************************)
EXTENDS Integers, Sequences, FiniteSets, TLC

(***************************************************************************)
(* Bounds of the model.                                                    *)
(***************************************************************************)
\* Last page number of PAGE_RANGE in the model (the source scans 1..10).
MaxPage == 2
\* Longest visible price text enumerated exhaustively.
MaxPriceLen == 3
\* Longest store file (number of JSON array items) enumerated exhaustively.
MaxFileLen == 3

(***************************************************************************)
(* Python values                                                           *)
(***************************************************************************)
None == [t |-> "None"]
Str(s) == [t |-> "str", s |-> s]
PyInt(n) == [t |-> "int", n |-> n]
Dict(f) == [t |-> "dict", d |-> f]

IsStr(v) == v.t = "str"
IsDict(v) == v.t = "dict"

\* dict.get(key): the value, or None when the key is absent
DictGet(v, key) == IF key \in DOMAIN v.d THEN v.d[key] ELSE None

\* Python truthiness of None / str values
Truthy(v) == IF v.t = "None" THEN FALSE
             ELSE IF v.t = "str" THEN v.s # <<>>
             ELSE TRUE

(***************************************************************************)
(* String operations                                                       *)
(***************************************************************************)
IsSpace(c) == c = " "

RECURSIVE LStrip(_)
LStrip(s) == IF s # <<>> /\ IsSpace(Head(s)) THEN LStrip(Tail(s)) ELSE s

RECURSIVE RStrip(_)
RStrip(s) == IF s # <<>> /\ IsSpace(s[Len(s)])
             THEN RStrip(SubSeq(s, 1, Len(s) - 1)) ELSE s

\* str.strip()
Strip(s) == RStrip(LStrip(s))

\* str.replace(c, "")
Remove(s, c) == SelectSeq(s, LAMBDA ch : ch # c)

\* str.split(): split on runs of whitespace, no empty tokens
RECURSIVE SplitFrom(_, _, _)
SplitFrom(s, cur, acc) ==
    IF s = <<>> THEN (IF cur = <<>> THEN acc ELSE Append(acc, cur))
    ELSE IF IsSpace(Head(s))
         THEN SplitFrom(Tail(s), <<>>, IF cur = <<>> THEN acc ELSE Append(acc, cur))
         ELSE SplitFrom(Tail(s), Append(cur, Head(s)), acc)

Split(s) == SplitFrom(s, <<>>, <<>>)

Digits == {"0", "1", "2", "3", "4", "5", "6", "7", "8", "9"}

DigitVal(c) == CASE c = "0" -> 0 [] c = "1" -> 1 [] c = "2" -> 2 [] c = "3" -> 3
                 [] c = "4" -> 4 [] c = "5" -> 5 [] c = "6" -> 6 [] c = "7" -> 7
                 [] c = "8" -> 8 [] c = "9" -> 9

RECURSIVE DigitsValue(_, _)
DigitsValue(s, acc) ==
    IF s = <<>> THEN acc ELSE DigitsValue(Tail(s), 10 * acc + DigitVal(Head(s)))

AllDigits(s) == \A i \in 1..Len(s) : s[i] \in Digits

\* Positions of "." in s
Dots(s) == {i \in 1..Len(s) : s[i] = "."}

\* float(s) on the characters the model uses (digits, ".", surrounding
\* whitespace; anything else is a ValueError).  The value is kept exactly as
\* mant / 10^frac.
ParseDecimal(s, ip, fp) ==
    IF AllDigits(ip) /\ AllDigits(fp) /\ Len(ip) + Len(fp) > 0
    THEN [ok |-> TRUE, mant |-> DigitsValue(ip \o fp, 0), frac |-> Len(fp)]
    ELSE [ok |-> FALSE]

ParseStripped(s, dots) ==
    IF s = <<>> THEN [ok |-> FALSE]
    ELSE IF dots = {} THEN
        IF AllDigits(s) THEN [ok |-> TRUE, mant |-> DigitsValue(s, 0), frac |-> 0]
        ELSE [ok |-> FALSE]
    ELSE IF Cardinality(dots) > 1 THEN [ok |-> FALSE]
    ELSE LET p == CHOOSE i \in dots : TRUE
         IN  ParseDecimal(s, SubSeq(s, 1, p - 1), SubSeq(s, p + 1, Len(s)))

ParseFloatStripped(s) == ParseStripped(s, Dots(s))

ParseFloat(s0) == ParseFloatStripped(Strip(s0))

\* value == 0.0 for a parsed float
IsZero(v) == v.mant = 0

(***************************************************************************)
(* Listing Extractor: _read_price_value, extract_listing_info              *)
(*                                                                         *)
(* A tile is a record of its sub-elements:                                 *)
(*   hidden  : NoElem, or Elem(textContent) for .price_for_filter          *)
(*   visible : NoElem, or Elem(text) for .wcpbc-price                      *)
(*   link    : NoElem, or Anchor(href) for a.totallink, href None or Str   *)
(*   title   : NoElem, or Elem(text) for .item-compare-title               *)
(***************************************************************************)
NoElem == [t |-> "NoSuchElement"]
Elem(text) == [t |-> "elem", text |-> text]
Anchor(href) == [t |-> "a", href |-> href]
Found(e) == e.t # "NoSuchElement"

Float(p) == [t |-> "float", mant |-> p.mant, frac |-> p.frac]

Euro == "€"
DefaultPriceText == <<Euro, "0", ".", "0", "0">>

\* First try block of _read_price_value: the hidden numeric field.
\* Result: [exc, value]; exc = "ValueError" when float() raises.
HiddenValue(p) ==
    IF p.ok THEN [exc |-> "", value |-> Float(p)]
    ELSE [exc |-> "ValueError", value |-> None]

HiddenText(hidden_text) ==
    IF hidden_text = <<>> THEN [exc |-> "", value |-> None]
    ELSE HiddenValue(ParseFloat(Remove(hidden_text, ",")))

ReadHidden(element) ==
    IF ~Found(element.hidden) THEN [exc |-> "", value |-> None]
    ELSE HiddenText(Strip(element.hidden.text))

\* Second try block of _read_price_value: the visible price text, used for
\* the value only when the hidden field gave none.
VisibleValue(price_text, price_value, p) ==
    IF p.ok THEN [exc |-> "", text |-> Str(price_text), value |-> Float(p)]
    ELSE [exc |-> "ValueError", text |-> Str(price_text), value |-> price_value]

VisibleTokens(price_text, price_value, numeric) ==
    IF numeric = <<>>
    THEN [exc |-> "", text |-> Str(price_text), value |-> price_value]
    ELSE VisibleValue(price_text, price_value, ParseFloat(numeric[Len(numeric)]))

VisibleText(price_text, price_value) ==
    IF price_value = None /\ price_text # <<>>
    THEN VisibleTokens(price_text, price_value,
                       Split(Remove(Remove(Remove(price_text, Euro), "$"), ",")))
    ELSE [exc |-> "", text |-> Str(price_text), value |-> price_value]

ReadVisible(element, price_value) ==
    IF ~Found(element.visible)
    THEN [exc |-> "", text |-> None, value |-> price_value]
    ELSE VisibleText(Strip(element.visible.text), price_value)

\* The second block runs unless the first one raised
AfterHidden(element, h) ==
    IF h.exc # "" THEN [exc |-> h.exc, text |-> None, value |-> None]
    ELSE ReadVisible(element, h.value)

\* _read_price_value(element): (price_text, price_value), or an exception
_read_price_value(element) == AfterHidden(element, ReadHidden(element))

\* Listing dataclass and Listing.to_dict
Listing(title, price_text, link) ==
    [title |-> title, price_text |-> price_text, link |-> link]

to_dict(l) == Dict([title |-> Str(l.title), price |-> Str(l.price_text), link |-> l.link])

\* extract_listing_info(element): [exc, listing]; listing is None when the
\* tile is skipped; exc names the exception that propagates, "" for none.
\* Lines 219-228, with r the result of _read_price_value
ListingFromPrice(element, r) ==
    IF r.exc # "" THEN [exc |-> r.exc, listing |-> None]
    ELSE IF r.value = None \/ ~IsZero(r.value) THEN [exc |-> "", listing |-> None]
    ELSE IF ~Found(element.link) \/ ~Found(element.title)
         THEN [exc |-> "NoSuchElementException", listing |-> None]
    ELSE [exc |-> "",
          listing |-> Listing(Strip(element.title.text),
                              IF Truthy(r.text) THEN r.text.s ELSE DefaultPriceText,
                              element.link.href)]

extract_listing_info(element) == ListingFromPrice(element, _read_price_value(element))

(***************************************************************************)
(* Result Store: results.json, json.dumps / json.loads,                    *)
(* load_existing_results, save_results                                     *)
(***************************************************************************)
PyList(items) == [t |-> "list", items |-> items]

JNull == [j |-> "null"]
JString(s) == [j |-> "string", s |-> s]
JNumber(n) == [j |-> "number", n |-> n]
JObject(f) == [j |-> "object", members |-> f]
JArray(items) == [j |-> "array", items |-> items]

\* json.dumps on the values the program dumps
RECURSIVE json_dumps(_)
json_dumps(v) ==
    CASE v.t = "None" -> JNull
      [] v.t = "str" -> JString(v.s)
      [] v.t = "int" -> JNumber(v.n)
      [] v.t = "dict" -> JObject([k \in DOMAIN v.d |-> json_dumps(v.d[k])])
      [] v.t = "list" -> JArray([i \in 1..Len(v.items) |-> json_dumps(v.items[i])])

\* json.loads on a well-formed document
RECURSIVE json_loads(_)
json_loads(x) ==
    CASE x.j = "null" -> None
      [] x.j = "string" -> Str(x.s)
      [] x.j = "number" -> PyInt(x.n)
      [] x.j = "object" -> Dict([k \in DOMAIN x.members |-> json_loads(x.members[k])])
      [] x.j = "array" -> PyList([i \in 1..Len(x.items) |-> json_loads(x.items[i])])

\* Content of RESULTS_PATH: no file, text that is not JSON, or a JSON document
Missing == [kind |-> "missing"]
Garbage == [kind |-> "garbage"]
JsonFile(doc) == [kind |-> "json", doc |-> doc]

\* LoadLoop as it would be without the `link in links` test
RECURSIVE LoadLoopNoDedup(_, _, _, _)
LoadLoopNoDedup(data, i, deduped, links) ==
    IF i > Len(data) THEN [entries |-> deduped, links |-> links]
    ELSE LET entry == data[i]
         IN  IF ~IsDict(entry) THEN LoadLoopNoDedup(data, i + 1, deduped, links)
             ELSE LET link == DictGet(entry, "link")
                  IN  IF ~IsStr(link) \/ ~Truthy(link)
                      THEN LoadLoopNoDedup(data, i + 1, deduped, links)
                      ELSE LoadLoopNoDedup(data, i + 1, Append(deduped, entry),
                                           links \cup {link})

\* The for loop of load_existing_results, from item i on
RECURSIVE LoadLoop(_, _, _, _)
LoadLoop(data, i, deduped, links) ==
    IF i > Len(data) THEN [entries |-> deduped, links |-> links]
    ELSE LET entry == data[i]
         IN  IF ~IsDict(entry) THEN LoadLoop(data, i + 1, deduped, links)
             ELSE LET link == DictGet(entry, "link")
                  IN  IF ~IsStr(link) \/ ~Truthy(link) \/ link \in links
                      THEN LoadLoop(data, i + 1, deduped, links)
                      ELSE LoadLoop(data, i + 1, Append(deduped, entry),
                                    links \cup {link})

\* load_existing_results(): (deduped entries, set of known links)
load_existing_results(f) ==
    IF f.kind = "missing" THEN [entries |-> <<>>, links |-> {}]
    ELSE IF f.kind = "garbage" THEN [entries |-> <<>>, links |-> {}]
    ELSE LET data == json_loads(f.doc)
         IN  IF data.t # "list" THEN [entries |-> <<>>, links |-> {}]
             ELSE LoadLoop(data.items, 1, <<>>, {})

\* save_results(entries): the new content of RESULTS_PATH
save_results(entries) == JsonFile(json_dumps(PyList(entries)))

(***************************************************************************)
(* Notifier: get_email_settings, send_email_notification                   *)
(*                                                                         *)
(* The environment is a record of what os.getenv returns for each name:    *)
(* None when the variable is unset, Str(s) otherwise.                      *)
(***************************************************************************)
\* os.getenv(name, default)
GetEnv(e, name, default) == IF e[name] = None THEN default ELSE e[name]

\* int(s) raises ValueError unless s is an integer literal
IntParses(s) == LET x == Strip(s) IN x # <<>> /\ AllDigits(x)

\* get_email_settings(): [exc, settings]; settings is None when the
\* configuration is incomplete, exc = "ValueError" when int() raises.
get_email_settings(e) ==
    LET host == GetEnv(e, "EMAIL_HOST", Str(<<"s", "m", "t", "p">>))
        portText == GetEnv(e, "EMAIL_PORT", Str(<<"5", "8", "7">>))
        user == e["EMAIL_USER"]
        password == e["EMAIL_PASSWORD"]
        sender0 == GetEnv(e, "EMAIL_FROM", user)
        recipient == e["EMAIL_TO"]
    IN  IF ~IntParses(portText.s) THEN [exc |-> "ValueError", settings |-> None]
        ELSE IF ~Truthy(user) \/ ~Truthy(password) THEN [exc |-> "", settings |-> None]
        ELSE IF ~Truthy(recipient) THEN [exc |-> "", settings |-> None]
        ELSE [exc |-> "",
              settings |-> [host |-> host, port |-> DigitsValue(Strip(portText.s), 0),
                            user |-> user, password |-> password,
                            sender |-> IF Truthy(sender0) THEN sender0 ELSE user,
                            recipient |-> recipient]]

\* send_email_notification(listings) up to the SMTP session:
\* [exc, attempt]; attempt says whether smtplib.SMTP(...) is entered.
WithSettings(r, listings) ==
    IF r.exc # "" THEN [exc |-> r.exc, attempt |-> FALSE]
    ELSE IF r.settings = None \/ listings = <<>> THEN [exc |-> "", attempt |-> FALSE]
    ELSE [exc |-> "", attempt |-> TRUE]

send_email_notification(e, listings) == WithSettings(get_email_settings(e), listings)

(***************************************************************************)
(* Page Fetcher: collect_free_listings_on_url                              *)
(*                                                                         *)
(* What a URL serves when it is fetched:                                   *)
(*   nav_timeout  : driver.get raises TimeoutException                     *)
(*   nav_error    : driver.get raises another WebDriverException           *)
(*   wait_timeout : the page loads, ul.listing-products never appears and  *)
(*                  WebDriverWait.until raises TimeoutException            *)
(*   loaded       : the page loads; items are its li.listing-product tiles *)
(***************************************************************************)
NavTimeout == [kind |-> "nav_timeout"]
NavError == [kind |-> "nav_error"]
WaitTimeout == [kind |-> "wait_timeout"]
Loaded(items) == [kind |-> "loaded", items |-> items]

\* The for loop over items, from item i on: [exc, listings]
RECURSIVE ItemsLoop(_, _, _)
\* The loop body for item i, with r the result of extract_listing_info
ItemsStep(items, i, free_entries, r) ==
    IF r.exc # "" THEN [exc |-> r.exc, listings |-> <<>>]
    ELSE IF r.listing = None THEN ItemsLoop(items, i + 1, free_entries)
    ELSE ItemsLoop(items, i + 1, Append(free_entries, r.listing))

ItemsLoop(items, i, free_entries) ==
    IF i > Len(items) THEN [exc |-> "", listings |-> free_entries]
    ELSE ItemsStep(items, i, free_entries, extract_listing_info(items[i]))

\* collect_free_listings_on_url(driver, url) when the URL serves `page`
collect_free_listings_on_url(page) ==
    CASE page.kind = "nav_timeout" -> [exc |-> "", listings |-> <<>>]
      [] page.kind = "nav_error" -> [exc |-> "", listings |-> <<>>]
      [] page.kind = "wait_timeout" -> [exc |-> "TimeoutException", listings |-> <<>>]
      [] page.kind = "loaded" -> ItemsLoop(page.items, 1, <<>>)

(***************************************************************************)
(* Orchestrator constants and the merge loop of main                       *)
(***************************************************************************)
PAGE_RANGE == 1..MaxPage

STATIC_LISTING_URLS == <<"pedals", "outlet-store", "accessories">>

\* LISTING_URL_TEMPLATE.format(page=page_number)
ListingUrl(page_number) == [path |-> "shop/page", page |-> page_number]
StaticUrl(i) == [path |-> STATIC_LISTING_URLS[i], page |-> 0]

AllUrls == {ListingUrl(p) : p \in PAGE_RANGE}
             \cup {StaticUrl(i) : i \in 1..Len(STATIC_LISTING_URLS)}

\* MergeLoop as it would be without `known_links.add(listing.link)`
RECURSIVE MergeLoopNoRecord(_, _, _, _, _)
MergeLoopNoRecord(listings, i, stored, known, new) ==
    IF i > Len(listings)
    THEN [stored_entries |-> stored, known_links |-> known, new_entries |-> new]
    ELSE LET listing == listings[i]
         IN  IF listing.link \in known
             THEN MergeLoopNoRecord(listings, i + 1, stored, known, new)
             ELSE MergeLoopNoRecord(listings, i + 1, Append(stored, to_dict(listing)),
                                    known, Append(new, to_dict(listing)))

\* for listing in run_listings: ... (lines 276-282), from listing i on
RECURSIVE MergeLoop(_, _, _, _, _)
MergeLoop(listings, i, stored, known, new) ==
    IF i > Len(listings)
    THEN [stored_entries |-> stored, known_links |-> known, new_entries |-> new]
    ELSE LET listing == listings[i]
         IN  IF listing.link \in known
             THEN MergeLoop(listings, i + 1, stored, known, new)
             ELSE MergeLoop(listings, i + 1, Append(stored, to_dict(listing)),
                            known \cup {listing.link}, Append(new, to_dict(listing)))

(***************************************************************************)
(* Inputs: tiles, pages, store files, environments                         *)
(***************************************************************************)
Tile(hidden, visible, link, title) ==
    [hidden |-> hidden, visible |-> visible, link |-> link, title |-> title]

TextZero == <<Euro, "0", ".", "0", "0">>
Text1200 == <<Euro, "1", ",", "2", "0", "0", ".", "0", "0">>
TextSale == Text1200 \o <<" ">> \o TextZero

LinkA == Str(<<"A">>)
LinkB == Str(<<"B">>)

FreeA == Tile(Elem(<<"0">>), Elem(TextZero), Anchor(LinkA), Elem(<<"T">>))
SaleA == Tile(NoElem, Elem(TextSale), Anchor(LinkA), Elem(<<" ", "U">>))
FreeB == Tile(Elem(<<"0", ".", "0", "0">>), NoElem, Anchor(LinkB), Elem(<<"T">>))
FreeNoHref == Tile(Elem(<<"0">>), NoElem, Anchor(None), Elem(<<"T">>))
Priced == Tile(NoElem, Elem(Text1200), Anchor(LinkB), Elem(<<"T">>))
FreeNoTitle == Tile(Elem(<<"0">>), Elem(TextZero), Anchor(LinkB), NoElem)
BadPrice == Tile(Elem(<<"x">>), Elem(TextZero), Anchor(LinkB), Elem(<<"T">>))

\* What a URL may serve in the model
PageOutcomes ==
    {NavTimeout, NavError, WaitTimeout,
     Loaded(<<Priced>>),
     Loaded(<<FreeA, Priced, FreeB>>),
     Loaded(<<SaleA, FreeA, FreeNoHref>>),
     Loaded(<<FreeB, FreeNoTitle>>),
     Loaded(<<BadPrice>>)}

\* Items of a store file
EntryA == JObject([title |-> JString(<<"T">>), price |-> JString(TextZero),
                   link |-> JString(<<"A">>)])
EntryA2 == JObject([title |-> JString(<<"U">>), price |-> JString(TextZero),
                    link |-> JString(<<"A">>)])
EntryB == JObject([title |-> JString(<<"T">>), price |-> JString(TextZero),
                   link |-> JString(<<"B">>)])
EntryNoLink == JObject([title |-> JString(<<"T">>)])
EntryNullLink == JObject([title |-> JString(<<"T">>), link |-> JNull])
EntryEmptyLink == JObject([title |-> JString(<<"T">>), link |-> JString(<<>>)])
EntryNumLink == JObject([title |-> JString(<<"T">>), link |-> JNumber(5)])

JsonItems == {JNumber(5), EntryA, EntryA2, EntryB, EntryNoLink, EntryNullLink,
              EntryEmptyLink, EntryNumLink}

\* All sequences over S of length at most n
SeqsUpTo(S, n) == UNION {[1..k -> S] : k \in 0..n}

\* Store files load_existing_results is applied to on its own
ProbeFiles ==
    {Missing, Garbage, JsonFile(JNull), JsonFile(JNumber(5)), JsonFile(EntryA)}
        \cup {JsonFile(JArray(items)) : items \in SeqsUpTo(JsonItems, MaxFileLen)}

\* Price texts extract_listing_info is applied to on its own
PriceChars == {"0", "1", ".", ",", " ", Euro}

HiddenTexts ==
    {<<>>, <<" ">>, <<"0">>, <<" ", "0", " ">>, <<"0", ".", "0", "0">>, <<"0", ",", "0">>,
     <<"1", ",", "2", "0", "0">>, <<"x">>, <<"0", ".", "0", ".">>}

VisibleTexts ==
    SeqsUpTo(PriceChars, MaxPriceLen)
        \cup {TextZero, Text1200, TextSale, <<"$", "0">>, <<"x">>,
              Text1200 \o <<" ", "x">>}

ProbeTiles ==
    {Tile(h, v, lt[1], lt[2]) :
        h \in {NoElem} \cup {Elem(x) : x \in HiddenTexts},
        v \in {NoElem} \cup {Elem(x) : x \in VisibleTexts},
        lt \in {<<Anchor(LinkA), Elem(<<" ", "T", " ">>)>>,
                <<Anchor(None), Elem(<<"T">>)>>,
                <<NoElem, Elem(<<"T">>)>>,
                <<Anchor(LinkA), NoElem>>}}

\* A store file with a non-object, a duplicate link, a null link and no link
DupFile ==
    JsonFile(JArray(<<EntryA, JNumber(5), EntryA2, EntryNullLink, EntryNoLink, EntryB>>))

\* Store files a run of main may start from
StoreFiles ==
    {Missing, Garbage, JsonFile(EntryA),
     JsonFile(JArray(<<>>)),
     JsonFile(JArray(<<EntryB>>)),
     JsonFile(JArray(<<EntryA, EntryB>>)),
     DupFile}

\* Environments get_email_settings may read
Environ(port, user, password, recipient) ==
    [EMAIL_HOST |-> None, EMAIL_PORT |-> port, EMAIL_USER |-> user,
     EMAIL_PASSWORD |-> password, EMAIL_FROM |-> None, EMAIL_TO |-> recipient]

EnvUser == Str(<<"u">>)
EnvPassword == Str(<<"w">>)
EnvTo == Str(<<"r">>)

Envs ==
    {Environ(None, EnvUser, EnvPassword, EnvTo),
     Environ(Str(<<"2", "5">>), EnvUser, EnvPassword, EnvTo),
     Environ(None, None, EnvPassword, EnvTo),
     Environ(None, Str(<<>>), EnvPassword, EnvTo),
     Environ(None, EnvUser, None, EnvTo),
     Environ(None, EnvUser, EnvPassword, None),
     Environ(None, None, None, None),
     Environ(Str(<<"x">>), EnvUser, EnvPassword, EnvTo),
     Environ(Str(<<"x">>), None, EnvPassword, EnvTo)}

(***************************************************************************)
(* State                                                                   *)
(***************************************************************************)
VARIABLES
    file,           \* content of RESULTS_PATH
    site,           \* what each URL serves while the content is pinned
    pc,             \* position in main: idle, pages, static, merge, save,
                    \* report, finally, ended
    exc,            \* the exception propagating out of the try block, "" for none
    driver,         \* none, open, quit: the browser session of this run
    sessions,       \* browser sessions created in this run
    quits,          \* calls of driver.quit in this run
    cursor,         \* loop variable: page number, then index of the static URL
    scanned,        \* URLs passed to collect_free_listings_on_url in this run
    run_listings,   \* main's run_listings
    stored_entries, \* main's stored_entries
    known_links,    \* main's known_links
    new_entries,    \* main's new_entries
    saves,          \* calls of save_results in this run
    env,            \* the environment get_email_settings read in this run
    notified,       \* argument of send_email_notification, NotCalled if none
    smtp,           \* SMTP sessions attempted in this run
    fileAtStart,    \* content of RESULTS_PATH when this run started
    prevCompleted,  \* the previous run ended without an exception
    probe,          \* input of a function applied on its own
    result          \* its result, Pending before

vars == <<file, site, pc, exc, driver, sessions, quits, cursor, scanned,
          run_listings, stored_entries, known_links, new_entries, saves, env,
          notified, smtp, fileAtStart, prevCompleted, probe, result>>

NotCalled == [t |-> "not called"]
Unread == [t |-> "unread"]
Pending == [t |-> "pending"]
NoSite == [u \in AllUrls |-> Loaded(<<>>)]

\* The locals of a run of main before it assigns them
FreshRun ==
    /\ exc = ""
    /\ cursor = 0
    /\ scanned = <<>>
    /\ run_listings = <<>>
    /\ stored_entries = <<>>
    /\ known_links = {}
    /\ new_entries = <<>>
    /\ saves = 0
    /\ env = Unread
    /\ notified = NotCalled
    /\ smtp = 0
    /\ sessions = 0
    /\ quits = 0
    /\ driver = "none"

\* Before main is first invoked
InitRun ==
    /\ pc = "idle"
    /\ FreshRun
    /\ fileAtStart = file
    /\ prevCompleted = FALSE

Init ==
    /\ file \in StoreFiles
    /\ site = NoSite
    /\ InitRun
    /\ probe = None
    /\ result = Pending

(***************************************************************************)
(* main()                                                                  *)
(***************************************************************************)
\* The locals of the run that starts, before main assigns them
ResetLocals ==
    /\ cursor' = 1
    /\ scanned' = <<>>
    /\ run_listings' = <<>>
    /\ stored_entries' = <<>>
    /\ known_links' = {}
    /\ new_entries' = <<>>
    /\ saves' = 0
    /\ env' = Unread
    /\ notified' = NotCalled
    /\ smtp' = 0
    /\ quits' = 0

\* main is invoked: load_env_file, build_driver succeed; the try block is entered
StartRun ==
    /\ pc \in {"idle", "ended"}
    /\ prevCompleted' = (pc = "ended" /\ exc = "")
    /\ fileAtStart' = file
    /\ ResetLocals
    /\ exc' = ""
    /\ driver' = "open"
    /\ sessions' = 1
    /\ pc' = IF MaxPage >= 1 THEN "pages" ELSE "static"
    /\ UNCHANGED <<file, site, probe, result>>

\* main is invoked and build_driver raises: no session, the try block is not entered
BuildDriverFails ==
    /\ pc \in {"idle", "ended"}
    /\ prevCompleted' = (pc = "ended" /\ exc = "")
    /\ fileAtStart' = file
    /\ ResetLocals
    /\ exc' = "RuntimeError"
    /\ driver' = "none"
    /\ sessions' = 0
    /\ pc' = "ended"
    /\ UNCHANGED <<file, site, probe, result>>

\* Scanned as it would be if main persisted the listings after every URL
ScannedAndSaved(url, r, more, after) ==
    /\ scanned' = Append(scanned, url)
    /\ IF r.exc # ""
       THEN /\ exc' = r.exc
            /\ pc' = "finally"
            /\ UNCHANGED <<run_listings, cursor, file>>
       ELSE /\ run_listings' = run_listings \o r.listings
            /\ file' = save_results([i \in 1..Len(run_listings') |-> to_dict(run_listings'[i])])
            /\ IF more
               THEN cursor' = cursor + 1 /\ pc' = pc
               ELSE cursor' = 1 /\ pc' = after
            /\ UNCHANGED exc
    /\ UNCHANGED <<site, driver, sessions, quits, stored_entries,
                   known_links, new_entries, saves, env, notified, smtp,
                   fileAtStart, prevCompleted, probe, result>>

\* Scanned as it would be without try/finally: an exception leaves main at once
ScannedNoFinally(url, r, more, after) ==
    /\ scanned' = Append(scanned, url)
    /\ IF r.exc # ""
       THEN /\ exc' = r.exc
            /\ pc' = "ended"
            /\ UNCHANGED <<run_listings, cursor>>
       ELSE /\ run_listings' = run_listings \o r.listings
            /\ IF more
               THEN cursor' = cursor + 1 /\ pc' = pc
               ELSE cursor' = 1 /\ pc' = after
            /\ UNCHANGED exc
    /\ UNCHANGED <<file, site, driver, sessions, quits, stored_entries,
                   known_links, new_entries, saves, env, notified, smtp,
                   fileAtStart, prevCompleted, probe, result>>

\* What main does with the result r of collect_free_listings_on_url(url):
\* extend run_listings and move the loop on, or leave the try block
Scanned(url, r, more, after) ==
    /\ scanned' = Append(scanned, url)
    /\ IF r.exc # ""
       THEN /\ exc' = r.exc
            /\ pc' = "finally"
            /\ UNCHANGED <<run_listings, cursor>>
       ELSE /\ run_listings' = run_listings \o r.listings
            /\ IF more
               THEN cursor' = cursor + 1 /\ pc' = pc
               ELSE cursor' = 1 /\ pc' = after
            /\ UNCHANGED exc
    /\ UNCHANGED <<file, site, driver, sessions, quits, stored_entries,
                   known_links, new_entries, saves, env, notified, smtp,
                   fileAtStart, prevCompleted, probe, result>>

\* One iteration of `for page in PAGE_RANGE` when the URL serves `page`
ScanPage(page) ==
    /\ pc = "pages"
    /\ Scanned(ListingUrl(cursor), collect_free_listings_on_url(page),
               cursor < MaxPage, "static")

\* One iteration of `for url in STATIC_LISTING_URLS` when the URL serves `page`
ScanStatic(page) ==
    /\ pc = "static"
    /\ Scanned(StaticUrl(cursor), collect_free_listings_on_url(page),
               cursor < Len(STATIC_LISTING_URLS), "merge")

\* Lines 274-282: load the store and merge this run's listings into it
\* MergeInto as it would be if the links of the loaded store were dropped
MergeIntoFresh(l, listings) == MergeLoop(listings, 1, l.entries, {}, <<>>)

\* Lines 274-275 and the loop: merge `listings` into the loaded store l
MergeInto(l, listings) == MergeLoop(listings, 1, l.entries, l.links, <<>>)

Merged(m) ==
    /\ stored_entries' = m.stored_entries
    /\ known_links' = m.known_links
    /\ new_entries' = m.new_entries

Merge ==
    /\ pc = "merge"
    /\ Merged(MergeInto(load_existing_results(file), run_listings))
    /\ pc' = "save"
    /\ UNCHANGED <<file, site, exc, driver, sessions, quits, cursor, scanned,
                   run_listings, saves, env, notified, smtp, fileAtStart,
                   prevCompleted, probe, result>>

\* Line 284: save_results(stored_entries) succeeds
Save ==
    /\ pc = "save"
    /\ file' = save_results(stored_entries)
    /\ saves' = saves + 1
    /\ pc' = "report"
    /\ UNCHANGED <<site, exc, driver, sessions, quits, cursor, scanned,
                   run_listings, stored_entries, known_links, new_entries, env,
                   notified, smtp, fileAtStart, prevCompleted, probe, result>>

\* Line 284: write_text raises OSError, before opening the file (it is left
\* as it was) or after truncating it (it holds no JSON document)
SaveFails ==
    /\ pc = "save"
    /\ file' \in {file, Garbage}
    /\ saves' = saves + 1
    /\ exc' = "OSError"
    /\ pc' = "finally"
    /\ UNCHANGED <<site, driver, sessions, quits, cursor, scanned,
                   run_listings, stored_entries, known_links, new_entries, env,
                   notified, smtp, fileAtStart, prevCompleted, probe, result>>

Notified(r) ==
    /\ exc' = r.exc
    /\ smtp' = IF r.attempt THEN smtp + 1 ELSE smtp

\* Lines 285-287: new entries exist; send_email_notification(new_entries)
\* runs in environment e
Notify(e) ==
    /\ pc = "report"
    /\ new_entries # <<>>
    /\ Notified(send_email_notification(e, new_entries))
    /\ env' = e
    /\ notified' = new_entries
    /\ pc' = "finally"
    /\ UNCHANGED <<file, site, driver, sessions, quits, cursor, scanned,
                   run_listings, stored_entries, known_links, new_entries, saves,
                   fileAtStart, prevCompleted, probe, result>>

\* Lines 285, 288-289: no new entries; only the message is printed
ReportNone ==
    /\ pc = "report"
    /\ new_entries = <<>>
    /\ pc' = "finally"
    /\ UNCHANGED <<file, site, exc, driver, sessions, quits, cursor, scanned,
                   run_listings, stored_entries, known_links, new_entries, saves,
                   env, notified, smtp, fileAtStart, prevCompleted, probe, result>>

\* Lines 290-291: finally: driver.quit(); main returns or the exception leaves it
Finally ==
    /\ pc = "finally"
    /\ driver' = "quit"
    /\ quits' = quits + 1
    /\ pc' = "ended"
    /\ UNCHANGED <<file, site, exc, sessions, cursor, scanned, run_listings,
                   stored_entries, known_links, new_entries, saves, env, notified,
                   smtp, fileAtStart, prevCompleted, probe, result>>

ScanPageAny == \E page \in PageOutcomes : ScanPage(page)
ScanStaticAny == \E page \in PageOutcomes : ScanStatic(page)
NotifyAny == \E e \in Envs : Notify(e)

Next ==
    \/ StartRun
    \/ BuildDriverFails
    \/ ScanPageAny
    \/ ScanStaticAny
    \/ Merge
    \/ Save
    \/ SaveFails
    \/ NotifyAny
    \/ ReportNone
    \/ Finally

Spec == Init /\ [][Next]_vars

\* The steps of a run of main once the try block is entered
RunStep ==
    \/ ScanPageAny
    \/ ScanStaticAny
    \/ Merge
    \/ Save
    \/ SaveFails
    \/ NotifyAny
    \/ ReportNone
    \/ Finally

\* main is sequential code: a run that can take a step takes one
FairSpec == Spec /\ WF_vars(RunStep)

(***************************************************************************)
(* The same site served to every run: each URL keeps serving site[url]     *)
(***************************************************************************)
PinnedPages ==
    {NavTimeout, WaitTimeout,
     Loaded(<<FreeA, Priced, FreeB>>),
     Loaded(<<SaleA, FreeA>>),
     Loaded(<<FreeNoHref>>)}

InitPinned ==
    /\ file \in StoreFiles
    /\ site \in [AllUrls -> PinnedPages]
    /\ InitRun
    /\ probe = None
    /\ result = Pending

ScanPagePinned == ScanPage(site[ListingUrl(cursor)])
ScanStaticPinned == ScanStatic(site[StaticUrl(cursor)])

NextPinned ==
    \/ StartRun
    \/ BuildDriverFails
    \/ ScanPagePinned
    \/ ScanStaticPinned
    \/ Merge
    \/ Save
    \/ SaveFails
    \/ NotifyAny
    \/ ReportNone
    \/ Finally

SpecPinned == InitPinned /\ [][NextPinned]_vars

(***************************************************************************)
(* load_existing_results and extract_listing_info applied on their own     *)
(***************************************************************************)
InitLoad ==
    /\ file \in ProbeFiles
    /\ site = NoSite
    /\ InitRun
    /\ probe = None
    /\ result = Pending

Load ==
    /\ result = Pending
    /\ result' = load_existing_results(file)
    /\ UNCHANGED <<file, site, pc, exc, driver, sessions, quits, cursor, scanned,
                   run_listings, stored_entries, known_links, new_entries, saves,
                   env, notified, smtp, fileAtStart, prevCompleted, probe>>

SpecLoad == InitLoad /\ [][Load]_vars

InitExtract ==
    /\ file = Missing
    /\ site = NoSite
    /\ InitRun
    /\ probe \in ProbeTiles
    /\ result = Pending

Extract ==
    /\ result = Pending
    /\ result' = extract_listing_info(probe)
    /\ UNCHANGED <<file, site, pc, exc, driver, sessions, quits, cursor, scanned,
                   run_listings, stored_entries, known_links, new_entries, saves,
                   env, notified, smtp, fileAtStart, prevCompleted, probe>>

SpecExtract == InitExtract /\ [][Extract]_vars

(***************************************************************************)
(* Properties                                                              *)
(***************************************************************************)
\* save_results has run in this run and written the store
StoreWritten == saves = 1 /\ exc # "OSError"

\* The subsequence of seq at the indices in I, in order
RECURSIVE SubseqAt(_, _, _)
SubseqAt(seq, I, i) ==
    IF i > Len(seq) THEN <<>>
    ELSE (IF i \in I THEN <<seq[i]>> ELSE <<>>) \o SubseqAt(seq, I, i + 1)

JLink(item) == item.members["link"]

HasLink(item) == item.j = "object" /\ "link" \in DOMAIN item.members

\* C1: no two entries of a store written by save_results share a link:
\* the written file is a JSON array of objects, each with a link member,
\* and the link members are pairwise different.
C1_UniqueLinks ==
    StoreWritten =>
        /\ file.kind = "json"
        /\ file.doc.j = "array"
        /\ \A i \in 1..Len(file.doc.items) : HasLink(file.doc.items[i])
        /\ \A i, k \in 1..Len(file.doc.items) :
              i # k => JLink(file.doc.items[i]) # JLink(file.doc.items[k])

\* C1 witness: a store with duplicate and invalid entries was loaded, the run
\* listed one link twice and a tile without href, and the store was written.
C1_Witness ==
    /\ StoreWritten
    /\ fileAtStart = DupFile
    /\ \E i, k \in 1..Len(run_listings) :
          i < k /\ run_listings[i].link = run_listings[k].link
    /\ \E i \in 1..Len(run_listings) : run_listings[i].link = None
    /\ Len(file.doc.items) = 3

\* The store S that the run loaded, and the links in it
LoadedStore == load_existing_results(fileAtStart).entries
LoadedLinks == {DictGet(LoadedStore[i], "link") : i \in 1..Len(LoadedStore)}

\* Indices of the listings of R whose link is not in known and does not
\* occur earlier in R
FirstNew(R, known) ==
    {i \in 1..Len(R) :
        /\ R[i].link \notin known
        /\ \A k \in 1..(i - 1) : R[k].link # R[i].link}

NewSuffixOf(R, known) ==
    LET kept == SubseqAt(R, FirstNew(R, known), 1)
    IN  [i \in 1..Len(kept) |-> to_dict(kept[i])]

NewSuffix == NewSuffixOf(run_listings, LoadedLinks)

\* C2: the written store is the loaded store S followed by the listings of
\* the run whose link is not in S, each link once, in first-encounter order;
\* the notifier is invoked exactly when that suffix is not empty, and then
\* with exactly that suffix.
C2_AppendOnlyNew ==
    StoreWritten =>
        /\ file.kind = "json"
        /\ json_loads(file.doc) = PyList(LoadedStore \o NewSuffix)
        /\ new_entries = NewSuffix
        /\ pc = "report" => notified = NotCalled
        /\ pc \in {"finally", "ended"} =>
              notified = (IF NewSuffix = <<>> THEN NotCalled ELSE NewSuffix)

\* C2 witness: store {B}, run listing A, B, A, B: the store becomes B, A and
\* the notifier received the entry for A only.
C2_Witness ==
    /\ pc = "ended"
    /\ StoreWritten
    /\ fileAtStart = JsonFile(JArray(<<EntryB>>))
    /\ Len(run_listings) = 4
    /\ \E i \in 1..Len(run_listings) : run_listings[i].link = LinkB
    /\ Len(notified) = 1
    /\ DictGet(notified[1], "link") = LinkA
    /\ file = JsonFile(JArray(<<EntryB, EntryA>>))

\* C3: with the same page content served to two runs in succession, both
\* completing, the second run has no new entries, sends no notification and
\* saves the store that the first run saved.
C3_SecondRunFindsNothing ==
    (pc = "ended" /\ exc = "" /\ prevCompleted) =>
        /\ new_entries = <<>>
        /\ notified = NotCalled
        /\ smtp = 0
        /\ file = fileAtStart

FetchFailures == {NavTimeout, NavError, WaitTimeout}

\* C4: a scan step whose URL fails by a timeout or a browser error, in
\* navigation or in the wait for the listing container, adds no listing,
\* raises nothing and goes on to the next URL or to the merge.
C4_FetchFailureIsSkipped ==
    [][\A page \in FetchFailures :
          (ScanPage(page) \/ ScanStatic(page)) =>
              /\ exc' = ""
              /\ run_listings' = run_listings
              /\ pc' \in {"pages", "static", "merge"}]_vars

\* C5: every run with a browser session ends with save_results executed
\* exactly once, and only after every page-range URL and every static URL
\* has been processed.
C5_SavedOncePerRun ==
    /\ (pc = "ended" /\ sessions = 1) => saves = 1
    /\ saves = 1 => Len(scanned) = MaxPage + Len(STATIC_LISTING_URLS)

\* C6: until save_results is called the store file is as it was when the
\* run started; in particular a run that an error ends before the save
\* leaves it so.
C6_FileUntouchedBeforeSave == saves = 0 => file = fileAtStart

\* C6 witness: a run that had collected listings was ended by an error at a
\* later URL, before any save, with a store file present.
C6_Witness ==
    /\ pc = "ended"
    /\ exc = "NoSuchElementException"
    /\ saves = 0
    /\ run_listings # <<>>
    /\ file = JsonFile(JArray(<<EntryB>>))

\* C7: a run creates at most one browser session and uses it for every URL;
\* once the session is open, driver.quit is eventually called, and a run
\* that had a session ends with exactly one call of driver.quit and the
\* browser closed.
C7_QuitExactlyOnce ==
    /\ [](/\ sessions <= 1
          /\ quits <= sessions
          /\ (pc \in {"pages", "static", "merge", "save", "report", "finally"}
                => sessions = 1 /\ driver = "open" /\ quits = 0)
          /\ (pc = "ended" /\ sessions = 1 => quits = 1 /\ driver = "quit"))
    /\ (driver = "open") ~> (driver = "quit" /\ quits = 1 /\ pc = "ended")

\* C7 witness: a run ended by an exception raised while scanning has quit
\* its browser once.
C7_Witness ==
    /\ pc = "ended"
    /\ exc = "TimeoutException"
    /\ Len(scanned) = 2
    /\ sessions = 1
    /\ quits = 1
    /\ driver = "quit"

\* An item of the file that load keeps unless an earlier one has its link
ValidItem(item) ==
    /\ HasLink(item)
    /\ JLink(item).j = "string"
    /\ JLink(item).s # <<>>

FirstValid(items) ==
    {i \in 1..Len(items) :
        /\ ValidItem(items[i])
        /\ \A k \in 1..(i - 1) : ValidItem(items[k]) => JLink(items[k]) # JLink(items[i])}

ExpectedLoad(f) ==
    IF f.kind # "json" THEN [entries |-> <<>>, links |-> {}]
    ELSE IF f.doc.j # "array" THEN [entries |-> <<>>, links |-> {}]
    ELSE LET kept == SubseqAt(f.doc.items, FirstValid(f.doc.items), 1)
         IN  [entries |-> [i \in 1..Len(kept) |-> json_loads(kept[i])],
              links |-> {Str(JLink(kept[i]).s) : i \in 1..Len(kept)}]

\* C8: load_existing_results returns nothing for a missing, unparseable or
\* non-list file, and otherwise the file's objects with a non-empty string
\* link, first occurrence of each link only, in file order, with the set of
\* exactly their links.
C8_LoadDedups ==
    result # Pending =>
        /\ result = ExpectedLoad(file)
        /\ result.links = {DictGet(result.entries[i], "link") : i \in 1..Len(result.entries)}

\* C8 witness: a list file with a non-object, a duplicate link and an empty
\* link was loaded and two entries were kept.
C8_Witness ==
    /\ result # Pending
    /\ file = JsonFile(JArray(<<EntryA2, EntryEmptyLink, EntryA>>))
    /\ result.entries = <<json_loads(EntryA2)>>

\* The price the claim resolves for a tile: the hidden field when present
\* and parseable, otherwise the last token of the cleaned visible text
HiddenPrice(tile) ==
    IF Found(tile.hidden) THEN ParseFloat(Remove(tile.hidden.text, ","))
    ELSE [ok |-> FALSE]
VisiblePrice(tile) ==
    IF ~Found(tile.visible) THEN [ok |-> FALSE]
    ELSE LET tokens == Split(Remove(Remove(Remove(tile.visible.text, Euro), "$"), ","))
         IN  IF tokens = <<>> THEN [ok |-> FALSE] ELSE ParseFloat(tokens[Len(tokens)])
ResolvedPrice(tile) ==
    IF HiddenPrice(tile).ok THEN HiddenPrice(tile) ELSE VisiblePrice(tile)

\* C9: extract_listing_info raises nothing and returns a listing exactly
\* when the resolved price of the tile is 0.0.
C9_ListingIffZeroPrice ==
    result # Pending =>
        /\ result.exc = ""
        /\ (result.listing # None) <=> (ResolvedPrice(probe).ok /\ IsZero(ResolvedPrice(probe)))

EnvAllSet == Truthy(env["EMAIL_USER"]) /\ Truthy(env["EMAIL_PASSWORD"]) /\ Truthy(env["EMAIL_TO"])

\* C10: an SMTP send is attempted exactly when the run has new entries and
\* EMAIL_USER, EMAIL_PASSWORD and EMAIL_TO are all set; when one is unset
\* the run still completes normally; the store is saved before any attempt.
C10_SendIffConfigured ==
    /\ env = Unread => smtp = 0
    /\ env # Unread =>
          /\ new_entries # <<>>
          /\ saves = 1
          /\ (smtp = 1) <=> EnvAllSet
          /\ ~EnvAllSet => exc = ""

====
